---- MODULE Spec2Model ----
(***************************************************************************)
(* Model of app.py, the annotation dashboard: the per-user response count  *)
(* (get_user_annotations_dictionary), the top-5 ranking                    *)
(* (obtain_top_5_users), the donut and KPI callbacks and main().           *)
(*                                                                         *)
(* A Python dict is a sequence of <<key, value>> pairs in insertion order. *)
(* A string is a pair: str(uuid) is <<"uuid", u>>, another username is     *)
(* <<"name", n>>; a username may spell the UUID of some user.              *)
(***************************************************************************)
EXTENDS Integers, Sequences, FiniteSets

\* ------------------------------------------------------------------ bounds
MaxUsers == 2
MaxRecords == 2
MaxResponses == 3
MaxSource == 2
MaxTarget == 1
MaxChanges == 3
MaxEntries == 6
MaxCount == 2

\* dataframe.head(5)
TopN == 5

VARIABLES
    env,             \* os.environ, as far as the program reads it
    source,          \* remote source dataset: the response status of each record
    target,          \* remote results dataset: per record, the user ids of its responses
    usernames,       \* remote users: user id -> username
    resolvable,      \* the user ids rg.User.from_id can resolve
    changes,         \* number of remote changes so far
    pc,              \* where the process is
    top5_dataframe,  \* main's top5_dataframe, the value of the gr.Dataframe
    page,            \* what the loaded page shows: plot, plot2 and the table
    pending,         \* load callbacks of the current page load still to run
    result,          \* what a call of get_user_annotations_dictionary gave
    m,               \* the argument of a call of obtain_top_5_users
    call             \* the call of get_user_annotations_dictionary in progress in
                     \* main or kpi_chart: its locals between two network calls

vars == <<env, source, target, usernames, resolvable, changes, pc,
          top5_dataframe, page, pending, result, m, call>>

\* ------------------------------------------------------------------ values
Ids == 1..MaxUsers

\* str(response.user_id)
Str(u) == <<"uuid", u>>

\* usernames that spell no UUID
NameList == <<"alice", "bob", "carol", "dave", "erin", "frank", "grace", "heidi">>

Name(i) == <<"name", NameList[i]>>

PlainNames == {Name(1), Name(2)}

\* every string a user's username can be
UserNames == PlainNames \cup {Str(u) : u \in Ids}

Statuses == {"pending", "submitted"}

RECURSIVE SeqsUpTo(_, _)
\* all sequences over S of length at most n
SeqsUpTo(S, n) ==
    IF n = 0 THEN {<<>>}
    ELSE LET shorter == SeqsUpTo(S, n - 1)
         IN shorter \cup {Append(s, x) : s \in {t \in shorter : Len(t) = n - 1}, x \in S}

RECURSIVE SumSeq(_)
SumSeq(s) == IF s = <<>> THEN 0 ELSE Head(s) + SumSeq(Tail(s))

RECURSIVE Flatten(_)
\* the user ids of all responses of a dataset, in iteration order
Flatten(records) ==
    IF records = <<>> THEN <<>> ELSE Head(records) \o Flatten(Tail(records))

RECURSIVE DatasetsWithin(_, _)
\* the datasets of at most records records and at most responses responses in all
DatasetsWithin(records, responses) ==
    IF records = 0 THEN {<<>>}
    ELSE {<<>>} \cup
         UNION {{<<first>> \o rest : rest \in DatasetsWithin(records - 1, responses - Len(first))} :
                   first \in SeqsUpTo(Ids, responses)}

\* a results dataset: per record, the user ids of its responses
Datasets == DatasetsWithin(MaxRecords, MaxResponses)

\* ------------------------------------------------------------------ dict
DictKeys(d) == [i \in 1..Len(d) |-> d[i][1]]

DictHas(d, k) == \E i \in 1..Len(d) : d[i][1] = k

DictGet(d, k) == d[CHOOSE i \in 1..Len(d) : d[i][1] = k][2]

\* d[k] = v: an existing key keeps its place
DictSet(d, k, v) ==
    IF DictHas(d, k)
    THEN [i \in 1..Len(d) |-> IF d[i][1] = k THEN <<k, v>> ELSE d[i]]
    ELSE Append(d, <<k, v>>)

\* d without key k (the value d.pop(k) returns is DictGet(d, k))
DictPop(d, k) == SelectSeq(d, LAMBDA e : e[1] # k)

\* ------------------------------------------------------------------ get_user_annotations_dictionary
\* lines 54-57: one response of user_id counted into output
CountResponse(output, user_id) ==
    IF ~DictHas(output, Str(user_id))
    THEN DictSet(output, Str(user_id), 1)
    ELSE DictSet(output, Str(user_id), DictGet(output, Str(user_id)) + 1)

RECURSIVE CountResponses(_, _)
\* line 53: for response in record.responses
CountResponses(output, responses) ==
    IF responses = <<>> THEN output
    ELSE CountResponses(CountResponse(output, Head(responses)), Tail(responses))

RECURSIVE CountRecords(_, _)
\* line 52: for record in dataset
CountRecords(output, dataset) ==
    IF dataset = <<>> THEN output
    ELSE CountRecords(CountResponses(output, Head(dataset)), Tail(dataset))

\* KeysToRename with the last key left out (an off-by-one slice)
KeysToRenameButLast(output) ==
    IF output = <<>> THEN <<>> ELSE SubSeq(DictKeys(output), 1, Len(output) - 1)

\* line 60: list(output.keys())
KeysToRename(output) == DictKeys(output)

\* from_id with local recovery: an unresolvable id falls back to the raw identifier
from_id_or_raw(key, names, resolv, reachable) ==
    IF key[1] # "uuid" THEN [ok |-> FALSE, error |-> "ValueError", called |-> <<>>, username |-> key]
    ELSE IF ~reachable
         THEN [ok |-> FALSE, error |-> "Unreachable", called |-> <<key[2]>>, username |-> key]
         ELSE IF key[2] \notin resolv
              THEN [ok |-> TRUE, error |-> "", called |-> <<key[2]>>, username |-> key]
              ELSE [ok |-> TRUE, error |-> "", called |-> <<key[2]>>, username |-> names[key[2]]]

\* line 61: rg.User.from_id(UUID(key)).username, a call to the platform;
\* reachable is whether the server answers it, called is the lookup made, if any
from_id(key, names, resolv, reachable) ==
    IF key[1] # "uuid" THEN [ok |-> FALSE, error |-> "ValueError", called |-> <<>>, username |-> key]
    ELSE IF ~reachable
         THEN [ok |-> FALSE, error |-> "Unreachable", called |-> <<key[2]>>, username |-> key]
         ELSE IF key[2] \notin resolv
              THEN [ok |-> FALSE, error |-> "LookupError", called |-> <<key[2]>>, username |-> key]
              ELSE [ok |-> TRUE, error |-> "", called |-> <<key[2]>>, username |-> names[key[2]]]

Raised(error, lookups) == [status |-> error, value |-> <<>>, lookups |-> lookups]

\* line 61, one pass of the loop: output[<username>] = output.pop(key).
\* Python evaluates output.pop(key) first, then the subscript (the lookup, a
\* blocking call to the platform), then stores.
RenameKey(output, key, names, resolv, reachable) ==
    LET user == from_id(key, names, resolv, reachable)
    IN IF ~DictHas(output, key)
       THEN [ok |-> FALSE, error |-> "KeyError", called |-> <<>>, output |-> output]
       ELSE IF ~user.ok
            THEN [ok |-> FALSE, error |-> user.error, called |-> user.called,
                  output |-> DictPop(output, key)]
            ELSE [ok |-> TRUE, error |-> "", called |-> user.called,
                  output |-> DictSet(DictPop(output, key), user.username,
                                     DictGet(output, key))]

RECURSIVE RenameKeys(_, _, _, _, _)
\* lines 60-61 run to the end on a platform that answers every lookup and
\* whose users do not change meanwhile
RenameKeys(output, keys, lookups, names, resolv) ==
    IF keys = <<>> THEN [status |-> "ok", value |-> output, lookups |-> lookups]
    ELSE LET step == RenameKey(output, Head(keys), names, resolv, TRUE)
         IN IF ~step.ok THEN Raised(step.error, lookups \o step.called)
            ELSE RenameKeys(step.output, Tail(keys), lookups \o step.called,
                            names, resolv)

\* lines 51-63 run to the end on a platform that answers every call and does
\* not change meanwhile
get_user_annotations_dictionary(dataset, names, resolv) ==
    LET output == CountRecords(<<>>, dataset)
    IN RenameKeys(output, KeysToRename(output), <<>>, names, resolv)

NoResult == [status |-> "none", value |-> <<>>, lookups |-> <<>>]

\* no call in progress
NoCall == [who |-> "none", dataset |-> <<>>, output |-> <<>>, keys |-> <<>>]

\* ------------------------------------------------------------------ idle values
NoEnv == [TARGET_RECORDS |-> <<"None", 0>>, SOURCE_DATASET |-> FALSE, RESULTS_DATASET |-> FALSE]
NoPage == [plot |-> [state |-> "empty", values |-> <<>>],
           plot2 |-> [state |-> "empty", values |-> <<>>],
           table |-> [state |-> "empty", values |-> <<>>]]

\* ------------------------------------------------------------------ obtain_top_5_users
Min(a, b) == IF a < b THEN a ELSE b

RECURSIVE Orders(_, _, _)
\* the orders of the rows with indices in S in which the counts never increase
\* (descending) or never decrease; rows of equal count come in any order
Orders(rows, S, descending) ==
    IF S = {} THEN {<<>>}
    ELSE LET first == {i \in S : \A j \in S :
                          IF descending THEN rows[i][2] >= rows[j][2]
                                        ELSE rows[i][2] <= rows[j][2]}
         IN UNION {{<<rows[i]>> \o rest : rest \in Orders(rows, S \ {i}, descending)} :
                      i \in first}

\* sort_values with ascending=True
sort_values_ascending(rows) == Orders(rows, 1..Len(rows), FALSE)

\* line 143: dataframe.sort_values(by="Annotated Records", ascending=False).
\* The sort is pandas' default (quicksort), which promises no order among
\* equal counts: every outcome is kept.
sort_values(rows) == Orders(rows, 1..Len(rows), TRUE)

\* head with one row too many
head_plus_one(rows) == SubSeq(rows, 1, Min(TopN + 1, Len(rows)))

\* line 144: dataframe.head(5)
head(rows) == SubSeq(rows, 1, Min(TopN, Len(rows)))

\* lines 140-144; the rows of DataFrame(user_ids_annotations.items()) are the
\* dict's items in insertion order
obtain_top_5_users(user_ids_annotations) ==
    {head(sorted) : sorted \in sort_values(user_ids_annotations)}

\* ------------------------------------------------------------------ the ranking specification
\* name-to-count mappings of at most MaxEntries entries, counts 1..MaxCount
Mappings ==
    {[i \in 1..Len(counts) |-> <<Name(i), counts[i]>>] :
        counts \in SeqsUpTo(1..MaxCount, MaxEntries)}

InitTop ==
    /\ call = NoCall
    /\ m \in Mappings
    /\ pc = "ready"
    /\ top5_dataframe = <<>>
    /\ target = <<>>
    /\ usernames = [u \in Ids |-> Name(u)]
    /\ resolvable = Ids
    /\ result = NoResult
    /\ env = NoEnv
    /\ source = <<>>
    /\ changes = 0
    /\ page = NoPage
    /\ pending = {}

CallObtainTop5 ==
    /\ pc = "ready"
    /\ \E rows \in obtain_top_5_users(m) : top5_dataframe' = rows
    /\ pc' = "returned"
    /\ UNCHANGED <<env, source, target, usernames, resolvable, changes,
                   page, pending, result, m, call>>

NextTop == CallObtainTop5

SpecTop == InitTop /\ [][NextTop]_vars

\* ------------------------------------------------------------------ claims on the ranking
Range(s) == {s[i] : i \in 1..Len(s)}

\* C3: obtain_top_5_users(m) has min(5, |m|) rows, each a distinct entry of m,
\* with counts that never increase from one row to the next; a mapping of
\* fewer than 5 entries is returned whole.
C3_TopFiveRows ==
    pc = "returned" =>
        /\ Len(top5_dataframe) = Min(5, Len(m))
        /\ Range(top5_dataframe) \subseteq Range(m)
        /\ \A i, j \in 1..Len(top5_dataframe) :
               i # j => top5_dataframe[i][1] # top5_dataframe[j][1]
        /\ \A i \in 1..Len(top5_dataframe) - 1 :
               top5_dataframe[i][2] >= top5_dataframe[i + 1][2]
        /\ Len(m) < 5 => Range(top5_dataframe) = Range(m)

\* six entries of two different counts went in, five rows came out
C3_Witness ==
    /\ pc = "returned"
    /\ Len(m) = 6
    /\ Len(top5_dataframe) = 5
    /\ top5_dataframe[1][2] > top5_dataframe[5][2]

\* C4: no entry left out of the result has a count greater than the count of a
\* returned row, however equal counts are ordered.
C4_HighestCounts ==
    pc = "returned" =>
        \A e \in Range(m) \ Range(top5_dataframe) :
            \A r \in Range(top5_dataframe) : e[2] <= r[2]

\* an entry was left out that ties with the last returned row, below the first
C4_Witness ==
    /\ pc = "returned"
    /\ Len(m) > 5
    /\ top5_dataframe[1][2] > top5_dataframe[5][2]
    /\ \E e \in Range(m) \ Range(top5_dataframe) : e[2] = top5_dataframe[5][2]

\* ------------------------------------------------------------------ the dashboard
\* what os.getenv("TARGET_RECORDS") can give: None, a text that is no number,
\* or the decimal digits of a number
TargetRecordsValues ==
    {<<"None", 0>>, <<"text", 0>>} \cup {<<"digits", n>> : n \in 0..MaxTarget}

\* int(os.getenv("TARGET_RECORDS")): TypeError on None, ValueError on a text
PyInt(v) == IF v[1] = "digits" THEN [ok |-> TRUE, value |-> v[2]]
                               ELSE [ok |-> FALSE, value |-> 0]

Environments ==
    [TARGET_RECORDS : TargetRecordsValues, SOURCE_DATASET : BOOLEAN, RESULTS_DATASET : BOOLEAN]

\* line 30: source_dataset.filter_by(response_status=["pending"])
filter_by(dataset, response_status) ==
    SelectSeq(dataset, LAMBDA status : status \in response_status)

\* lines 27-37. from_argilla raises when the dataset name is None or the
\* server does not answer (reachable is the server's answer to this call).
obtain_source_target_datasets(reachable) ==
    IF ~reachable \/ ~env.SOURCE_DATASET \/ ~env.RESULTS_DATASET
    THEN [ok |-> FALSE, source |-> <<>>, target |-> <<>>]
    ELSE [ok |-> TRUE, source |-> filter_by(source, {"pending"}), target |-> target]

\* pending_records clamped at zero
pending_records_clamped(goal, annotated_records) ==
    IF goal - annotated_records < 0 THEN 0 ELSE goal - annotated_records

\* line 76: pending_records = int(os.getenv("TARGET_RECORDS")) - annotated_records
pending_records(goal, annotated_records) == goal - annotated_records

Empty == [state |-> "empty", values |-> <<>>]
Failed == [state |-> "error", values |-> <<>>]
Shown(values) == [state |-> "shown", values |-> values]

Init ==
    /\ call = NoCall
    /\ env \in Environments
    /\ source = <<>>
    /\ target = <<>>
    /\ usernames = [u \in Ids |-> Name(u)]
    /\ resolvable = Ids
    /\ changes = 0
    /\ pc = "start"
    /\ top5_dataframe = <<>>
    /\ page = NoPage
    /\ pending = {}
    /\ result = NoResult
    /\ m = <<>>

\* lines 147-159, up to the end of the counting loop (line 57): rg.init passes
\* the credentials on, the datasets are fetched and the responses of the
\* results records, as they are now, are counted. With no key to rename the
\* rest of main is local: the ranking, the page and the launch.
main_fetch ==
    /\ pc = "start"
    /\ \E reachable \in BOOLEAN :
          LET datasets == obtain_source_target_datasets(reachable)
              output == CountRecords(<<>>, datasets.target)
          IN IF ~datasets.ok
             THEN pc' = "failed" /\ top5_dataframe' = <<>> /\ call' = NoCall
             ELSE IF KeysToRename(output) = <<>>
                  THEN /\ \E rows \in obtain_top_5_users(output) : top5_dataframe' = rows
                       /\ pc' = "serving"
                       /\ call' = NoCall
                  ELSE /\ call' = [who |-> "main", dataset |-> datasets.target,
                                   output |-> output, keys |-> KeysToRename(output)]
                       /\ pc' = "renaming"
                       /\ top5_dataframe' = <<>>
    /\ UNCHANGED <<env, source, target, usernames, resolvable, changes,
                   page, pending, result, m>>

\* line 61 inside main, one lookup: the platform's users are read as they are
\* now. After the last key, lines 159-213: the ranking is computed once, the
\* page is built with it as the value of the table, the server is launched.
\* An exception ends the process.
main_rename ==
    /\ pc = "renaming"
    /\ call.who = "main"
    /\ \E reachable \in BOOLEAN :
          LET step == RenameKey(call.output, Head(call.keys), usernames, resolvable,
                                reachable)
          IN IF ~step.ok
             THEN pc' = "failed" /\ top5_dataframe' = <<>> /\ call' = NoCall
             ELSE IF Tail(call.keys) = <<>>
                  THEN /\ \E rows \in obtain_top_5_users(step.output) :
                             top5_dataframe' = rows
                       /\ pc' = "serving"
                       /\ call' = NoCall
                  ELSE /\ call' = [call EXCEPT !.output = step.output, !.keys = Tail(@)]
                       /\ UNCHANGED <<pc, top5_dataframe>>
    /\ UNCHANGED <<env, source, target, usernames, resolvable, changes,
                   page, pending, result, m>>

\* lines 147-213
main == main_fetch \/ main_rename

\* a browser loads the page: the table shows its value, and the two load
\* events (lines 178-182 and 194-198) are queued
PageLoad ==
    /\ pc = "serving"
    /\ pending = {}
    /\ page' = [plot |-> Empty, plot2 |-> Empty, table |-> Shown(top5_dataframe)]
    /\ pending' = {"donut_chart", "kpi_chart"}
    /\ UNCHANGED <<env, source, target, usernames, resolvable, changes, pc,
                   top5_dataframe, result, m, call>>

\* lines 66-99, as the load callback of plot
donut_chart ==
    /\ pc = "serving"
    /\ "donut_chart" \in pending
    /\ \E reachable \in BOOLEAN :
          LET datasets == obtain_source_target_datasets(reachable)
              annotated_records == Len(datasets.source)
              goal == PyInt(env.TARGET_RECORDS)
          IN page' = [page EXCEPT !.plot =
                 IF datasets.ok /\ goal.ok
                 THEN Shown(<<annotated_records,
                              pending_records(goal.value, annotated_records)>>)
                 ELSE Failed]
    /\ pending' = pending \ {"donut_chart"}
    /\ UNCHANGED <<env, source, target, usernames, resolvable, changes, pc,
                   top5_dataframe, result, m, call>>

\* lines 110-112 up to the end of the counting loop (line 57), in the load
\* callback of plot2: the results records are read as they are now. With no
\* key to rename the chart is drawn (lines 113-126).
kpi_fetch ==
    /\ pc = "serving"
    /\ "kpi_chart" \in pending
    /\ call.who = "none"
    /\ \E reachable \in BOOLEAN :
          LET datasets == obtain_source_target_datasets(reachable)
              output == CountRecords(<<>>, datasets.target)
          IN IF ~datasets.ok
             THEN /\ page' = [page EXCEPT !.plot2 = Failed]
                  /\ pending' = pending \ {"kpi_chart"}
                  /\ call' = NoCall
             ELSE IF KeysToRename(output) = <<>>
                  THEN /\ page' = [page EXCEPT !.plot2 = Shown(<<Len(output)>>)]
                       /\ pending' = pending \ {"kpi_chart"}
                       /\ call' = NoCall
                  ELSE /\ call' = [who |-> "kpi_chart", dataset |-> datasets.target,
                                   output |-> output, keys |-> KeysToRename(output)]
                       /\ UNCHANGED <<page, pending>>
    /\ UNCHANGED <<env, source, target, usernames, resolvable, changes, pc,
                   top5_dataframe, result, m>>

\* line 61 inside kpi_chart, one lookup; after the last key the chart is drawn
\* from len(user_ids_annotations) (lines 113-126)
kpi_rename ==
    /\ pc = "serving"
    /\ call.who = "kpi_chart"
    /\ \E reachable \in BOOLEAN :
          LET step == RenameKey(call.output, Head(call.keys), usernames, resolvable,
                                reachable)
          IN IF ~step.ok
             THEN /\ page' = [page EXCEPT !.plot2 = Failed]
                  /\ pending' = pending \ {"kpi_chart"}
                  /\ call' = NoCall
             ELSE IF Tail(call.keys) = <<>>
                  THEN /\ page' = [page EXCEPT !.plot2 = Shown(<<Len(step.output)>>)]
                       /\ pending' = pending \ {"kpi_chart"}
                       /\ call' = NoCall
                  ELSE /\ call' = [call EXCEPT !.output = step.output, !.keys = Tail(@)]
                       /\ UNCHANGED <<page, pending>>
    /\ UNCHANGED <<env, source, target, usernames, resolvable, changes, pc,
                   top5_dataframe, result, m>>

\* lines 102-126, as the load callback of plot2
kpi_chart == kpi_fetch \/ kpi_rename

\* the annotation platform, changed by its users while the dashboard runs
RemoteChange ==
    /\ pc \notin {"failed", "returned"}
    /\ changes < MaxChanges
    /\ changes' = changes + 1

\* a record is added to the results dataset, with or without a response
RemoteAddRecord ==
    /\ RemoteChange
    /\ Len(target) < MaxRecords
    /\ \E responses \in SeqsUpTo(Ids, 1) :
          /\ Len(Flatten(target)) + Len(responses) <= MaxResponses
          /\ target' = Append(target, responses)
    /\ UNCHANGED <<env, source, usernames, resolvable, pc, top5_dataframe,
                   page, pending, result, m, call>>

\* a user responds to a record of the results dataset
RemoteRespond ==
    /\ RemoteChange
    /\ Len(Flatten(target)) < MaxResponses
    /\ \E i \in 1..Len(target), u \in Ids :
          target' = [target EXCEPT ![i] = Append(@, u)]
    /\ UNCHANGED <<env, source, usernames, resolvable, pc, top5_dataframe,
                   page, pending, result, m, call>>

\* a record is added to the source dataset
RemoteSourceAdd ==
    /\ RemoteChange
    /\ Len(source) < MaxSource
    /\ \E status \in Statuses : source' = Append(source, status)
    /\ UNCHANGED <<env, target, usernames, resolvable, pc, top5_dataframe,
                   page, pending, result, m, call>>

\* the response status of a source record changes
RemoteSourceStatus ==
    /\ RemoteChange
    /\ \E i \in 1..Len(source), status \in Statuses :
          /\ status # source[i]
          /\ source' = [source EXCEPT ![i] = status]
    /\ UNCHANGED <<env, target, usernames, resolvable, pc, top5_dataframe,
                   page, pending, result, m, call>>

\* a user is removed from the platform: from_id no longer resolves the id
RemoteUserRemoved ==
    /\ RemoteChange
    /\ \E u \in resolvable : resolvable' = resolvable \ {u}
    /\ UNCHANGED <<env, source, target, usernames, pc, top5_dataframe,
                   page, pending, result, m, call>>

Next ==
    \/ main
    \/ PageLoad
    \/ donut_chart
    \/ kpi_chart
    \/ RemoteAddRecord
    \/ RemoteRespond
    \/ RemoteSourceAdd
    \/ RemoteSourceStatus
    \/ RemoteUserRemoved

Spec == Init /\ [][Next]_vars

\* ------------------------------------------------------------------ the counting specification
\* one call of get_user_annotations_dictionary on the results dataset of a
\* platform that changes while the call waits for it
InitCount ==
    /\ call = NoCall
    /\ target = <<>>
    /\ usernames \in [Ids -> UserNames]
    /\ resolvable = Ids
    /\ pc = "ready"
    /\ result = NoResult
    /\ env = NoEnv
    /\ source = <<>>
    /\ changes = 0
    /\ top5_dataframe = <<>>
    /\ page = NoPage
    /\ pending = {}
    /\ m = <<>>

\* lines 51-57: the records are read from the platform (reachable: whether the
\* server answers) and their responses counted; with no key to rename the
\* call returns the empty mapping (line 63)
call_count ==
    /\ pc = "ready"
    /\ \E reachable \in BOOLEAN :
          LET output == CountRecords(<<>>, target)
          IN IF ~reachable
             THEN /\ result' = Raised("Unreachable", <<>>)
                  /\ call' = NoCall
                  /\ pc' = "returned"
             ELSE /\ call' = [who |-> "call", dataset |-> target, output |-> output,
                              keys |-> KeysToRename(output)]
                  /\ IF KeysToRename(output) = <<>>
                     THEN /\ result' = [status |-> "ok", value |-> output, lookups |-> <<>>]
                          /\ pc' = "returned"
                     ELSE /\ result' = NoResult
                          /\ pc' = "renaming"
    /\ UNCHANGED <<env, source, target, usernames, resolvable, changes,
                   top5_dataframe, page, pending, m>>

\* line 61, one lookup; after the last key the mapping is returned (line 63),
\* an exception leaves the call with no mapping
call_rename ==
    /\ pc = "renaming"
    /\ call.who = "call"
    /\ \E reachable \in BOOLEAN :
          LET step == RenameKey(call.output, Head(call.keys), usernames, resolvable,
                                reachable)
          IN /\ call' = [call EXCEPT !.output = step.output, !.keys = Tail(@)]
             /\ IF ~step.ok
                THEN /\ result' = Raised(step.error, result.lookups \o step.called)
                     /\ pc' = "returned"
                ELSE IF Tail(call.keys) = <<>>
                     THEN /\ result' = [status |-> "ok", value |-> step.output,
                                        lookups |-> result.lookups \o step.called]
                          /\ pc' = "returned"
                     ELSE /\ result' = [result EXCEPT !.lookups = @ \o step.called]
                          /\ pc' = "renaming"
    /\ UNCHANGED <<env, source, target, usernames, resolvable, changes,
                   top5_dataframe, page, pending, m>>

\* lines 40-63
CallGetUserAnnotations == call_count \/ call_rename

NextCount ==
    \/ CallGetUserAnnotations
    \/ RemoteAddRecord
    \/ RemoteRespond
    \/ RemoteUserRemoved

SpecCount == InitCount /\ [][NextCount]_vars

\* ------------------------------------------------------------------ claims on the count
\* number of responses user u submitted in the dataset
ResponsesOf(u, dataset) ==
    Cardinality({i \in 1..Len(Flatten(dataset)) : Flatten(dataset)[i] = u})

\* the users with at least one response
Annotators(dataset) == {Flatten(dataset)[i] : i \in 1..Len(Flatten(dataset))}

DictValues(d) == [i \in 1..Len(d) |-> d[i][2]]

\* the call returned a mapping; call.dataset is the records it iterated
Returned == pc = "returned" /\ result.status = "ok"

\* C1: the values of the returned name-keyed mapping sum to the number of
\* responses of the records iterated, whatever usernames the user ids have.
C1_SumIsTotal ==
    Returned => SumSeq(DictValues(result.value)) = Len(Flatten(call.dataset))

\* C2: the returned mapping has an entry for a user exactly when the user has
\* at least one response, and the entry is the user's number of responses.
C2_EntryPerAnnotator ==
    Returned =>
        \A u \in Ids :
            /\ DictHas(result.value, usernames[u]) <=> ResponsesOf(u, call.dataset) >= 1
            /\ DictHas(result.value, usernames[u]) =>
                   ResponsesOf(u, call.dataset) = DictGet(result.value, usernames[u])

\* a lookup of the call in progress
LookupMade == pc = "renaming" /\ call.who = "call" /\ result'.lookups # result.lookups

\* C9: when the lookup of an identifier of the counted dataset fails (the
\* platform does not resolve it, or does not answer), the call ends there
\* with that failure and returns no mapping.
C9_LookupFailurePropagates ==
    [][/\ (LookupMade /\ Head(call.keys)[2] \notin resolvable) =>
             /\ pc' = "returned"
             /\ result'.status \in {"LookupError", "Unreachable"}
       /\ (LookupMade /\ result'.status \in {"LookupError", "Unreachable"}) =>
             /\ pc' = "returned"
             /\ result'.value = <<>>
             /\ result'.lookups = result.lookups \o <<Head(call.keys)[2]>>]_vars

\* a call that failed on its second lookup, after one key was already renamed
C9_Witness ==
    /\ pc = "returned"
    /\ result.status = "LookupError"
    /\ Len(result.lookups) = 2
    /\ result.lookups[2] \notin resolvable

\* C10: a successful call looks up every distinct user id of the responses it
\* iterated exactly once, and none for a dataset without responses, whose
\* mapping is empty.
C10_OneLookupPerUser ==
    Returned =>
        /\ Len(result.lookups) = Cardinality(Annotators(call.dataset))
        /\ \A u \in Annotators(call.dataset) :
               Cardinality({i \in 1..Len(result.lookups) : result.lookups[i] = u}) = 1
        /\ Flatten(call.dataset) = <<>> => result.lookups = <<>> /\ result.value = <<>>

\* a successful call on a dataset where one user answered twice and another once
C10_Witness ==
    /\ Returned
    /\ Len(result.lookups) = 2
    /\ \E u \in Ids : ResponsesOf(u, call.dataset) >= 2

\* usernames as the platform keeps them: distinct, and none spelling a user id.
\* Under this restriction the sum and the per-user entries of C1 and C2 hold.
PlainUsernames ==
    /\ \A u \in Ids : usernames[u] \in PlainNames
    /\ \A u, v \in Ids : u # v => usernames[u] # usernames[v]

C1_Plain == PlainUsernames => C1_SumIsTotal
C2_Plain == PlainUsernames => C2_EntryPerAnnotator

\* ------------------------------------------------------------------ claims on the dashboard
\* a step of the donut callback that drew the chart
DonutDrawn == "donut_chart" \in pending /\ page'.plot.state = "shown" /\ page.plot.state = "empty"

\* a step of the KPI callback that drew the chart
KpiDrawn == "kpi_chart" \in pending /\ page'.plot2.state = "shown" /\ page.plot2.state = "empty"

\* a step of the KPI callback that read the results records and went on to
\* the lookups
KpiFetched == call.who = "none" /\ call'.who = "kpi_chart"

\* the results records the KPI callback of this page load read
KpiRecords == IF call.who = "kpi_chart" THEN call.dataset ELSE target

\* a step that loads the page
PageLoaded == pending = {} /\ pending' # {}

\* size of the pending-filtered source dataset, as the platform holds it
PendingInSource == Cardinality({i \in 1..Len(source) : source[i] = "pending"})

\* C5: the donut chart is drawn from (A, T - A), A the number of pending
\* records of the source dataset and T the configured target, the difference
\* unclamped.
C5_DonutValues ==
    [][DonutDrawn =>
          page'.plot.values =
              <<PendingInSource, env.TARGET_RECORDS[2] - PendingInSource>>]_vars

\* the donut drawn with more pending source records than the target: negative
C5_Witness ==
    /\ page.plot.state = "shown"
    /\ page.plot.values[1] > env.TARGET_RECORDS[2]
    /\ page.plot.values[2] < 0

\* the donut and KPI parts of C6: the donut is drawn from the source dataset
\* as it is when the callback draws it, the KPI callback reads the results
\* records as they are when it runs and draws the count of what it read
C6_ChartsComputedAtPageLoad ==
    [][/\ DonutDrawn =>
             page'.plot.values =
                 <<PendingInSource, env.TARGET_RECORDS[2] - PendingInSource>>
       /\ KpiFetched => call'.dataset = target
       /\ KpiDrawn =>
             page'.plot2.values =
                 <<Len(get_user_annotations_dictionary(KpiRecords, usernames, Ids).value)>>]_vars

\* C6: every element a page load shows is computed from the data as it is at
\* that page load: the donut and the KPI from what their callbacks read when
\* they run, the table from the data as it is when the page is loaded.
C6_AllComputedAtPageLoad ==
    [][/\ DonutDrawn =>
             page'.plot.values =
                 <<PendingInSource, env.TARGET_RECORDS[2] - PendingInSource>>
       /\ KpiFetched => call'.dataset = target
       /\ KpiDrawn =>
             page'.plot2.values =
                 <<Len(get_user_annotations_dictionary(KpiRecords, usernames, Ids).value)>>
       /\ PageLoaded =>
             LET now == get_user_annotations_dictionary(target, usernames, resolvable)
             IN now.status = "ok" =>
                    page'.table.values \in obtain_top_5_users(now.value)]_vars

ConfigurationComplete ==
    /\ env.TARGET_RECORDS[1] = "digits"
    /\ env.SOURCE_DATASET
    /\ env.RESULTS_DATASET

SomeElementShown ==
    \/ page.plot.state = "shown"
    \/ page.plot2.state = "shown"
    \/ page.table.state = "shown"

\* C7: with a required configuration value missing or invalid the program
\* fails at startup: it is never serving, and no page element is shown.
C7_FailFastOnConfiguration ==
    ~ConfigurationComplete => pc # "serving" /\ ~SomeElementShown

\* C8: once a page load is over, all three elements are shown or none is.
C8_AllOrNothing ==
    (pc = "serving" /\ page.table.state # "empty" /\ pending = {}) =>
        \/ /\ page.plot.state = "shown"
           /\ page.plot2.state = "shown"
           /\ page.table.state = "shown"
        \/ ~SomeElementShown

====
